---- MODULE Spec2Model ----
(***************************************************************************)
(* Model of src/app.py: the ticker normaliser normalize_stock and the      *)
(* workbook extractor extract_client_data.                                 *)
(*                                                                         *)
(* Python strings are sequences of one-character strings, cell values are  *)
(* tagged records (None, a str, a number), floats are integers.            *)
(***************************************************************************)
EXTENDS Integers, Sequences, FiniteSets, TLC

VARIABLES
    raw,         \* normalize_stock: the raw input of the call under check
    once,        \* normalize_stock(raw)
    twice,       \* normalize_stock(normalize_stock(raw))
    npc,         \* position of the normalisation run
    wb,          \* the workbook behind `file` (the input; never written)
    handle,      \* state of the object load_workbook returned
    pc,          \* position inside extract_client_data
    sheet_i,     \* index into wb.sheetnames of the for loop of line 60
    loc,         \* the per-sheet locals of lines 62-134
    out,         \* the dict `out`
    all_prices,  \* the dict `all_prices`
    result,      \* what the call returned (NoResult until it returns)
    err          \* the exception that left the call (NoError until one does)

vars == <<raw, once, twice, npc, wb, handle, pc, sheet_i, loc, out,
          all_prices, result, err>>

normVars == <<raw, once, twice, npc>>
extractVars == <<wb, handle, pc, sheet_i, loc, out, all_prices, result, err>>

-----------------------------------------------------------------------------
(* Bounds of the explored inputs.                                          *)

\* longest raw ticker string given to normalize_stock
MaxLen == 6

-----------------------------------------------------------------------------
(* Python values.                                                          *)

None == [k |-> "none", s |-> <<>>, n |-> 0]
Str(cs) == [k |-> "str", s |-> cs, n |-> 0]
Num(x) == [k |-> "num", s |-> <<>>, n |-> x]

\* bool(v): None, "" and 0 are falsy
Truthy(v) ==
    CASE v.k = "none" -> FALSE
      [] v.k = "str" -> v.s # <<>>
      [] OTHER -> v.n # 0

\* isinstance(v, (int, float))
IsNumber(v) == v.k = "num"

\* v or 0
OrZero(v) == IF Truthy(v) THEN v ELSE Num(0)

LowerAlpha ==
    <<"a","b","c","d","e","f","g","h","i","j","k","l","m",
      "n","o","p","q","r","s","t","u","v","w","x","y","z">>
UpperAlpha ==
    <<"A","B","C","D","E","F","G","H","I","J","K","L","M",
      "N","O","P","Q","R","S","T","U","V","W","X","Y","Z">>
DigitChars == <<"0","1","2","3","4","5","6","7","8","9">>

\* the characters of the model in code point order
Charset == <<" ", "-", ".", "/">> \o DigitChars \o UpperAlpha \o LowerAlpha

IndexIn(c, seq) ==
    IF \E i \in 1..Len(seq) : seq[i] = c
    THEN CHOOSE i \in 1..Len(seq) : seq[i] = c
    ELSE 0

IsSpace(c) == c = " "

LowerSet == {LowerAlpha[i] : i \in 1..Len(LowerAlpha)}
UpperSet == {UpperAlpha[i] : i \in 1..Len(UpperAlpha)}
DigitSet == {DigitChars[i] : i \in 1..Len(DigitChars)}
UpperOf == [c \in LowerSet |-> UpperAlpha[IndexIn(c, LowerAlpha)]]
LowerOf == [c \in UpperSet |-> LowerAlpha[IndexIn(c, UpperAlpha)]]
DigitOf == [c \in DigitSet |-> IndexIn(c, DigitChars) - 1]

IsLower(c) == c \in LowerSet
IsUpper(c) == c \in UpperSet
IsAlpha(c) == IsLower(c) \/ IsUpper(c)
IsDigit(c) == c \in DigitSet

ToUpperChar(c) == IF IsLower(c) THEN UpperOf[c] ELSE c
ToLowerChar(c) == IF IsUpper(c) THEN LowerOf[c] ELSE c

\* str.upper(), str.lower()
Upper(cs) == [i \in 1..Len(cs) |-> ToUpperChar(cs[i])]
Lower(cs) == [i \in 1..Len(cs) |-> ToLowerChar(cs[i])]

\* str.title(): a letter is uppercased after a non-letter, lowercased after a letter
Title(cs) ==
    [i \in 1..Len(cs) |->
        IF i > 1 /\ IsAlpha(cs[i - 1]) THEN ToLowerChar(cs[i]) ELSE ToUpperChar(cs[i])]

RECURSIVE LStrip(_)
LStrip(cs) == IF cs # <<>> /\ IsSpace(Head(cs)) THEN LStrip(Tail(cs)) ELSE cs

RECURSIVE RStrip(_)
RStrip(cs) ==
    IF cs # <<>> /\ IsSpace(cs[Len(cs)])
    THEN RStrip(SubSeq(cs, 1, Len(cs) - 1))
    ELSE cs

\* str.strip()
Strip(cs) == RStrip(LStrip(cs))

\* str.endswith(suffix)
EndsWith(cs, suffix) ==
    /\ Len(cs) >= Len(suffix)
    /\ SubSeq(cs, Len(cs) - Len(suffix) + 1, Len(cs)) = suffix

RECURSIVE NatToStr(_)
NatToStr(x) ==
    IF x < 10 THEN <<DigitChars[x + 1]>>
    ELSE NatToStr(x \div 10) \o <<DigitChars[(x % 10) + 1]>>

\* str(v)
PyStr(v) ==
    CASE v.k = "none" -> <<"N","o","n","e">>
      [] v.k = "str" -> v.s
      [] OTHER -> NatToStr(v.n)

RECURSIVE DigitsToNat(_)
DigitsToNat(cs) ==
    IF cs = <<>> THEN 0
    ELSE 10 * DigitsToNat(SubSeq(cs, 1, Len(cs) - 1)) + DigitOf[cs[Len(cs)]]

\* float(v) for the v the code hands it (never None: every call is float(x or 0)):
\* a number converts to itself, a str converts when, stripped, it is a run
\* of digits and raises ValueError otherwise
PyFloat(v) ==
    IF v.k = "num" THEN [ok |-> TRUE, n |-> v.n]
    ELSE LET body == Strip(v.s)
         IN IF body # <<>> /\ \A i \in 1..Len(body) : IsDigit(body[i])
            THEN [ok |-> TRUE, n |-> DigitsToNat(body)]
            ELSE [ok |-> FALSE, n |-> 0]

\* character and string order of sorted(): by code point, lexicographic
CodePoint == [c \in {Charset[i] : i \in 1..Len(Charset)} |-> IndexIn(c, Charset)]
Ord(c) == CodePoint[c]

RECURSIVE LexLess(_, _)
LexLess(a, b) ==
    IF b = <<>> THEN FALSE
    ELSE IF a = <<>> THEN TRUE
    ELSE IF Head(a) = Head(b) THEN LexLess(Tail(a), Tail(b))
    ELSE Ord(Head(a)) < Ord(Head(b))

-----------------------------------------------------------------------------
(* normalize_stock, lines 12-16.                                           *)

MARKET_SUFFIX == <<".", "C", "A">>

\* a slip: the suffix is appended without looking at the end of the string
normalize_stock_always_appends(s) ==
    IF ~Truthy(s) THEN <<>>
    ELSE Upper(Strip(PyStr(s))) \o MARKET_SUFFIX

\* a slip: a blank string is taken for an empty one
normalize_stock_blank_is_empty(s) ==
    IF ~Truthy(s) \/ Strip(PyStr(s)) = <<>> THEN <<>>
    ELSE LET u == Upper(Strip(PyStr(s)))
         IN IF EndsWith(u, MARKET_SUFFIX) THEN u ELSE u \o MARKET_SUFFIX

normalize_stock(s) ==
    IF ~Truthy(s) THEN <<>>
    ELSE LET u == Upper(Strip(PyStr(s)))
         IN IF EndsWith(u, MARKET_SUFFIX) THEN u ELSE u \o MARKET_SUFFIX

-----------------------------------------------------------------------------
(* The workbook as openpyxl presents it, lines 56-61.  A worksheet is a    *)
(* sparse grid: `rows` holds the rows that have a cell, every other row    *)
(* reads as empty cells.  Every row tuple of iter_rows has `width` cells   *)
(* (the sheet's max_column).                                               *)

GREY == "FFD3D3D3"
NOFILL == "00000000"

\* the rows of the fixed cells B4, C27 and C32
CLIENT_ROW == 4
CASH_ROW == 27
DIVIDENDS_ROW == 32
\* the label scans of lines 69 and 131 read rows 1..100
SCAN_ROWS == 100
\* ic_end = last_stock_row + 11, line 117
IC_END_OFFSET == 11
\* the docstring (line 51) and the comment of line 114: the next 10 rows
LOOKAHEAD == 10

EmptyRow == [a |-> None, b |-> None, fill |-> NOFILL, c |-> None, e |-> None,
             h |-> None, i |-> None]

CellRow(ws, r) == IF r \in DOMAIN ws.rows THEN ws.rows[r] ELSE EmptyRow

SetMax(S) == CHOOSE x \in S : \A y \in S : y <= x
SetMin(S) == CHOOSE x \in S : \A y \in S : x <= y

\* ws.max_row once B4, C27 and C32 have been read (reading a cell creates it)
max_row(ws) == SetMax(DOMAIN ws.rows \cup {DIVIDENDS_ROW})

\* len(r) > idx: the row tuple has a cell at 0-based index idx
HasCol(ws, idx) == ws.width > idx

STOCKS_LABEL == <<"s","t","o","c","k","s">>
TOTAL_LABEL == <<"t","o","t","a","l"," ","a","s","s","e","t","s">>
RESERVED == {<<"S","T","K","-","3","0","0">>, <<"S","T","K","-","3","0","2">>}
STREAM_ID == <<"S","T","K","-","3","0","0">>
MOMENTUM_ID == <<"S","T","K","-","3","0","2">>

\* first row of 1..100 whose column A reads, stripped and lowercased, as
\* the label; 0 when there is none (lines 69-72, 131-134).  A row without
\* cells reads None there, and str(None) is no label.
FindLabel(ws, label) ==
    LET hits == {r \in 1..SCAN_ROWS :
                    /\ r \in DOMAIN ws.rows
                    /\ Lower(Strip(PyStr(ws.rows[r].a))) = label}
    IN IF hits = {} THEN 0 ELSE SetMin(hits)

\* a slip: any grey row ends the block, blank or not
IsTerminator_grey_only(rgb, value) == rgb = GREY

\* lines 83-85: the fill is the light grey and the cell is None or blank
IsTerminator(rgb, value) ==
    /\ rgb = GREY
    /\ (value.k = "none" \/ Strip(PyStr(value)) = <<>>)

\* a slip: the reserved identifiers are not filtered out
IsRealStock_any_name(name_up, qty) == IsNumber(qty)

\* line 105
IsRealStock(name_up, qty) == name_up \notin RESERVED /\ IsNumber(qty)

\* a slip: the first price seen for a ticker is kept
RegisterPrice_first_wins(prices, key, price) ==
    IF key \in DOMAIN prices THEN prices
    ELSE [k \in DOMAIN prices \cup {key} |-> IF k = key THEN price ELSE prices[k]]

\* all_prices[key] = price, line 102
RegisterPrice(prices, key, price) ==
    [k \in DOMAIN prices \cup {key} |-> IF k = key THEN price ELSE prices[k]]

\* d[key] = value, line 143
DictSet(d, key, value) ==
    [k \in DOMAIN d \cup {key} |-> IF k = key THEN value ELSE d[k]]

\* sorted(all_prices.items()) as the rows of prices_df, lines 154-155
RECURSIVE SortedItems(_)
SortedItems(d) ==
    IF DOMAIN d = {} THEN <<>>
    ELSE LET k == CHOOSE k \in DOMAIN d : \A j \in DOMAIN d : j = k \/ LexLess(k, j)
         IN <<[Stock |-> k, Price |-> d[k]]>>
            \o SortedItems([j \in DOMAIN d \ {k} |-> d[j]])

\* an exception of a builtin: its type and the value its message quotes;
\* `cell` is the cell address it carries, and none of them carries one
Exception(type, arg) == [type |-> type, arg |-> arg, cell |-> ""]
NoError == [type |-> "none", arg |-> None, cell |-> ""]

NoResult == [returned |-> FALSE, out |-> <<>>, prices_df |-> <<>>]
EmptyDict == <<>>

NoLocals ==
    [client |-> <<>>, cash |-> 0, dividends |-> 0, start_row |-> 0,
     stock_rows |-> <<>>, stream_mv |-> 0, momentum_mv |-> 0,
     last_stock_row |-> 0, r |-> 0, aum |-> 0]

-----------------------------------------------------------------------------
(* The inputs of the normalisation run: None and every string of at most   *)
(* MaxLen characters over blank, dot, and both cases of the suffix letters.*)

NormAlphabet == {" ", ".", "C", "A", "a"}

RawStrings == UNION {[1..n -> NormAlphabet] : n \in 0..MaxLen}

RawInputs == {None} \cup {Str(cs) : cs \in RawStrings}

ExtractIdle ==
    /\ wb = <<>>
    /\ handle = "unopened"
    /\ pc = "idle"
    /\ sheet_i = 0
    /\ loc = NoLocals
    /\ out = EmptyDict
    /\ all_prices = EmptyDict
    /\ result = NoResult
    /\ err = NoError

InitNorm ==
    /\ raw \in RawInputs
    /\ once = None
    /\ twice = None
    /\ npc = "raw"
    /\ ExtractIdle

\* the first call, normalize_stock(raw)
NormalizeOnce ==
    /\ npc = "raw"
    /\ once' = Str(normalize_stock(raw))
    /\ npc' = "once"
    /\ UNCHANGED <<raw, twice>>
    /\ UNCHANGED extractVars

\* the second call, on the first call's result
NormalizeTwice ==
    /\ npc = "once"
    /\ twice' = Str(normalize_stock(once))
    /\ npc' = "twice"
    /\ UNCHANGED <<raw, once>>
    /\ UNCHANGED extractVars

NextNorm == NormalizeOnce \/ NormalizeTwice

SpecNorm == InitNorm /\ [][NextNorm]_vars

-----------------------------------------------------------------------------
(* extract_client_data, lines 44-156.                                      *)

CurrentSheet == wb[sheet_i]

\* an exception leaves the call: nothing is returned
Raise(type, arg) ==
    /\ pc' = "raised"
    /\ err' = Exception(type, arg)
    /\ UNCHANGED <<wb, handle, sheet_i, loc, out, all_prices, result>>

\* line 56-58: load_workbook, out = {}, all_prices = {}
LoadWorkbook ==
    /\ pc = "start"
    /\ handle' = "open"
    /\ out' = EmptyDict
    /\ all_prices' = EmptyDict
    /\ sheet_i' = 1
    /\ pc' = "sheet_loop"
    /\ UNCHANGED <<wb, loc, result, err>>
    /\ UNCHANGED normVars

\* lines 60-65: the next sheet's client name, cash and dividends
ReadScalars ==
    /\ pc = "sheet_loop"
    /\ sheet_i <= Len(wb)
    /\ LET ws == CurrentSheet
           b4 == CellRow(ws, CLIENT_ROW).b
           c27 == CellRow(ws, CASH_ROW).c
           c32 == CellRow(ws, DIVIDENDS_ROW).c
           cash == PyFloat(OrZero(c27))
           dividends == PyFloat(OrZero(c32))
       IN IF Truthy(b4) /\ b4.k # "str"
          THEN Raise("AttributeError", b4)
          ELSE IF ~cash.ok THEN Raise("ValueError", c27)
          ELSE IF ~dividends.ok THEN Raise("ValueError", c32)
          ELSE /\ loc' = [NoLocals EXCEPT
                            !.client = Title(IF Truthy(b4) THEN b4.s ELSE ws.name),
                            !.cash = cash.n,
                            !.dividends = dividends.n]
               /\ pc' = "locate"
               /\ UNCHANGED <<wb, handle, sheet_i, out, all_prices, result, err>>
    /\ UNCHANGED normVars

\* lines 67-79: find the 'Stocks' label; without it the block and the IC
\* scan are skipped
LocateStocks ==
    /\ pc = "locate"
    /\ LET label == FindLabel(CurrentSheet, STOCKS_LABEL)
       IN IF label # 0
          THEN /\ loc' = [loc EXCEPT !.start_row = label + 1, !.r = label + 1]
               /\ pc' = "holdings"
          ELSE /\ loc' = loc
               /\ pc' = "aum"
    /\ UNCHANGED <<wb, handle, sheet_i, out, all_prices, result, err>>
    /\ UNCHANGED normVars

\* lines 82-112, one pass of the loop body over row r: what the pass does
\* to all_prices and stock_rows, or the exception it raises
RowOutcome(ws, r, prices, stock_rows) ==
    LET row == CellRow(ws, r)
        stay == [kind |-> "next", prices |-> prices, stock_rows |-> stock_rows,
                 type |-> "none", arg |-> None]
    IN IF ~HasCol(ws, 1) THEN [stay EXCEPT !.kind = "raise", !.type = "IndexError"]
       ELSE IF IsTerminator(row.fill, row.b) THEN [stay EXCEPT !.kind = "terminator"]
       ELSE IF ~HasCol(ws, 2) \/ ~HasCol(ws, 4)
       THEN [stay EXCEPT !.kind = "raise", !.type = "IndexError"]
       ELSE LET name == row.b
                qty == row.c
                price == row.e
                mv == IF HasCol(ws, 7) THEN row.h ELSE Num(0)
                wt == IF HasCol(ws, 8) THEN row.i ELSE Num(0)
            IN IF ~Truthy(name) THEN stay
               ELSE LET name_str == Strip(PyStr(name))
                        name_up == Upper(name_str)
                        seen == IF IsNumber(price)
                                THEN RegisterPrice(prices, normalize_stock(Str(name_str)), price.n)
                                ELSE prices
                        fq == PyFloat(OrZero(qty))
                        fp == PyFloat(OrZero(price))
                        fm == PyFloat(OrZero(mv))
                    IN IF ~IsRealStock(name_up, qty) THEN [stay EXCEPT !.prices = seen]
                       ELSE IF ~fq.ok
                       THEN [stay EXCEPT !.kind = "raise", !.type = "ValueError", !.arg = qty]
                       ELSE IF ~fp.ok
                       THEN [stay EXCEPT !.kind = "raise", !.type = "ValueError", !.arg = price]
                       ELSE IF ~fm.ok
                       THEN [stay EXCEPT !.kind = "raise", !.type = "ValueError", !.arg = mv]
                       ELSE [stay EXCEPT
                               !.prices = seen,
                               !.stock_rows = Append(stock_rows,
                                   [Company_Name |-> normalize_stock(Str(name_str)),
                                    Quantity |-> fq.n,
                                    Price |-> fp.n,
                                    Market_Value |-> fm.n,
                                    Weight |-> OrZero(wt)])]

\* line 81: iter_rows(min_row=start_row) has no more rows
HoldingsExhausted ==
    /\ pc = "holdings"
    /\ loc.r > max_row(CurrentSheet)
    /\ pc' = "ics"
    /\ UNCHANGED <<wb, handle, sheet_i, loc, out, all_prices, result, err>>
    /\ UNCHANGED normVars

\* lines 85-87: the grey and empty row ends the block
HoldingsTerminator ==
    /\ pc = "holdings"
    /\ loc.r <= max_row(CurrentSheet)
    /\ RowOutcome(CurrentSheet, loc.r, all_prices, loc.stock_rows).kind = "terminator"
    /\ loc' = [loc EXCEPT !.last_stock_row = loc.r]
    /\ pc' = "ics"
    /\ UNCHANGED <<wb, handle, sheet_i, out, all_prices, result, err>>
    /\ UNCHANGED normVars

\* lines 89-112: a row of the block is read
HoldingsRow ==
    /\ pc = "holdings"
    /\ loc.r <= max_row(CurrentSheet)
    /\ LET o == RowOutcome(CurrentSheet, loc.r, all_prices, loc.stock_rows)
       IN /\ o.kind = "next"
          /\ all_prices' = o.prices
          /\ loc' = [loc EXCEPT !.stock_rows = o.stock_rows, !.r = loc.r + 1]
    /\ UNCHANGED <<wb, handle, pc, sheet_i, out, result, err>>
    /\ UNCHANGED normVars

\* lines 82-110: a cell the row does not have, or a float() that fails
HoldingsRowRaises ==
    /\ pc = "holdings"
    /\ loc.r <= max_row(CurrentSheet)
    /\ LET o == RowOutcome(CurrentSheet, loc.r, all_prices, loc.stock_rows)
       IN /\ o.kind = "raise"
          /\ Raise(o.type, o.arg)
    /\ UNCHANGED normVars

\* line 117: ic_start, ic_end, both read by iter_rows
ICWindow(last_stock_row) ==
    [lo |-> last_stock_row + 1, hi |-> last_stock_row + IC_END_OFFSET]

\* lines 118-127 over rows r..hi
RECURSIVE ScanICRows(_, _, _, _, _)
ScanICRows(ws, r, hi, stream_mv, momentum_mv) ==
    IF r > hi
    THEN [ok |-> TRUE, stream_mv |-> stream_mv, momentum_mv |-> momentum_mv,
          type |-> "none", arg |-> None]
    ELSE IF ~HasCol(ws, 1)
    THEN [ok |-> FALSE, stream_mv |-> stream_mv, momentum_mv |-> momentum_mv,
          type |-> "IndexError", arg |-> None]
    ELSE LET row == CellRow(ws, r)
             name_cell == row.b
             nm == Upper(Strip(PyStr(name_cell)))
             mv == IF HasCol(ws, 7) THEN row.h ELSE Num(0)
             f == PyFloat(OrZero(mv))
         IN IF ~Truthy(name_cell) \/ nm \notin {STREAM_ID, MOMENTUM_ID}
            THEN ScanICRows(ws, r + 1, hi, stream_mv, momentum_mv)
            ELSE IF ~f.ok
            THEN [ok |-> FALSE, stream_mv |-> stream_mv, momentum_mv |-> momentum_mv,
                  type |-> "ValueError", arg |-> mv]
            ELSE IF nm = STREAM_ID
            THEN ScanICRows(ws, r + 1, hi, f.n, momentum_mv)
            ELSE ScanICRows(ws, r + 1, hi, stream_mv, f.n)

\* lines 114-127: the scan for the two ICs after the block
ScanICs ==
    /\ pc = "ics"
    /\ LET last == IF loc.last_stock_row = 0 THEN loc.start_row ELSE loc.last_stock_row
           w == ICWindow(last)
           o == ScanICRows(CurrentSheet, w.lo, w.hi, 0, 0)
       IN IF o.ok
          THEN /\ loc' = [loc EXCEPT !.last_stock_row = last,
                                     !.stream_mv = o.stream_mv,
                                     !.momentum_mv = o.momentum_mv]
               /\ pc' = "aum"
               /\ UNCHANGED <<wb, handle, sheet_i, out, all_prices, result, err>>
          ELSE Raise(o.type, o.arg)
    /\ UNCHANGED normVars

\* lines 129-134: the 'Total Assets' row
ReadAUM ==
    /\ pc = "aum"
    /\ LET ws == CurrentSheet
           label == FindLabel(ws, TOTAL_LABEL)
           cell == CellRow(ws, label).c
           f == PyFloat(OrZero(cell))
       IN IF label = 0
          THEN /\ loc' = [loc EXCEPT !.aum = 0]
               /\ pc' = "assemble"
               /\ UNCHANGED <<wb, handle, sheet_i, out, all_prices, result, err>>
          ELSE IF ~HasCol(ws, 2) THEN Raise("IndexError", None)
          ELSE IF ~f.ok THEN Raise("ValueError", cell)
          ELSE /\ loc' = [loc EXCEPT !.aum = f.n]
               /\ pc' = "assemble"
               /\ UNCHANGED <<wb, handle, sheet_i, out, all_prices, result, err>>
    /\ UNCHANGED normVars

\* lines 136-151: the sheet's record goes into out, the loop goes on
Assemble ==
    /\ pc = "assemble"
    /\ out' = DictSet(out, loc.client,
                 [data |-> loc.stock_rows,
                  cash |-> loc.cash,
                  dividends |-> loc.dividends,
                  stream_mv |-> loc.stream_mv,
                  momentum_mv |-> loc.momentum_mv,
                  total_cash |-> loc.cash + loc.dividends + loc.stream_mv,
                  aum |-> loc.aum])
    /\ sheet_i' = sheet_i + 1
    /\ pc' = "sheet_loop"
    /\ UNCHANGED <<wb, handle, loc, all_prices, result, err>>
    /\ UNCHANGED normVars

\* lines 153-156: every sheet is done
Return ==
    /\ pc = "sheet_loop"
    /\ sheet_i > Len(wb)
    /\ result' = [returned |-> TRUE, out |-> out, prices_df |-> SortedItems(all_prices)]
    /\ pc' = "returned"
    /\ UNCHANGED <<wb, handle, sheet_i, loc, out, all_prices, err>>
    /\ UNCHANGED normVars

Next ==
    \/ LoadWorkbook
    \/ ReadScalars
    \/ LocateStocks
    \/ HoldingsExhausted
    \/ HoldingsTerminator
    \/ HoldingsRow
    \/ HoldingsRowRaises
    \/ ScanICs
    \/ ReadAUM
    \/ Assemble
    \/ Return

NormIdle ==
    /\ raw = None
    /\ once = None
    /\ twice = None
    /\ npc = "idle"

-----------------------------------------------------------------------------
(* The workbooks explored.  Every sheet has the fixed cells B4, C27 and    *)
(* C32, the 'Stocks' label below them when it has one, and the block under *)
(* the label.                                                              *)

\* most rows a holdings block is filled with
MaxStocks == 2
\* row of the 'Total Assets' label
TotalRow == 2

StocksRow == DIVIDENDS_ROW + 1

NameX == <<"x">>
NameXca == <<" ", "X", ".", "c", "a">>
NameY == <<"y">>
NameStream == <<" ", "s", "t", "k", "-", "3", "0", "0">>
NameMomentum == <<"S", "T", "K", "-", "3", "0", "2">>
Blank == <<" ">>
NA == <<"N", "/", "A">>
Seven == <<"7">>
Acme == <<"a", "c", "m", "e", " ", "c", "o">>
S1 == <<"s", "1">>
S2 == <<"s", "2">>

StockRow(b, fill, c, e, h) ==
    [EmptyRow EXCEPT !.b = b, !.fill = fill, !.c = c, !.e = e, !.h = h]

PlainX == StockRow(Str(NameX), NOFILL, Num(10), Num(3), Num(30))
GreyEmpty == StockRow(None, GREY, None, None, None)
StreamRow == StockRow(Str(NameStream), NOFILL, Num(5), Num(9), Num(70))
MomentumRow == StockRow(Str(NameMomentum), NOFILL, None, None, Num(80))

BlockKinds ==
    { PlainX,
      \* the same ticker under another spelling, at another price
      [StockRow(Str(NameXca), NOFILL, Num(20), Num(4), None) EXCEPT !.i = Num(1)],
      StreamRow,
      MomentumRow,
      EmptyRow,
      GreyEmpty,
      \* grey and blank: a terminator, whatever else the row holds
      StockRow(Str(Blank), GREY, Num(1), Num(2), None),
      \* grey with a name, and blank without the fill: rows of the block
      StockRow(Str(NameY), GREY, Num(7), Num(6), Num(42)),
      StockRow(Str(Blank), NOFILL, Num(1), Num(2), None),
      \* a quantity that is no number
      StockRow(Str(NameY), NOFILL, Str(NA), Num(8), None),
      \* no price, an empty market value
      StockRow(Str(NameY), NOFILL, Num(7), None, Str(<<>>)),
      \* a price that is text, a price that is blank, a market value that is blank
      StockRow(Str(NameY), NOFILL, Num(7), Str(NA), None),
      StockRow(Str(NameY), NOFILL, Num(7), Str(Blank), None),
      StockRow(Str(NameY), NOFILL, Num(7), Num(6), Str(Blank)) }

ICKinds ==
    { StreamRow,
      StockRow(Str(STREAM_ID), NOFILL, None, None, Num(90)),
      MomentumRow,
      StockRow(Str(MOMENTUM_ID), NOFILL, None, None, None),
      StockRow(Str(STREAM_ID), NOFILL, None, None, Str(Blank)) }

ScalarVals == {None, Str(<<>>), Str(Blank), Str(NA), Str(Seven), Num(5)}
ClientVals == {None, Str(<<>>), Str(Acme)}
Widths == {3, 4, 5, 7, 8}

Scalars(b4, c27, c32) ==
    (CLIENT_ROW :> [EmptyRow EXCEPT !.b = b4])
        @@ (CASH_ROW :> [EmptyRow EXCEPT !.c = c27])
        @@ (DIVIDENDS_ROW :> [EmptyRow EXCEPT !.c = c32])

Total(v) ==
    TotalRow :> [EmptyRow EXCEPT
                   !.a = Str(<<"T","o","t","a","l"," ","A","s","s","e","t","s">>),
                   !.c = v]

Label == StocksRow :> [EmptyRow EXCEPT !.a = Str(<<" ","S","t","o","c","k","s">>)]

Block(seq) == [r \in (StocksRow + 1)..(StocksRow + Len(seq)) |-> seq[r - StocksRow]]

\* a row of a sheet of `width` columns has no cell beyond them
ClipRow(row, width) ==
    [row EXCEPT
        !.b = IF width >= 2 THEN @ ELSE None,
        !.fill = IF width >= 2 THEN @ ELSE NOFILL,
        !.c = IF width >= 3 THEN @ ELSE None,
        !.e = IF width >= 5 THEN @ ELSE None,
        !.h = IF width >= 8 THEN @ ELSE None,
        !.i = IF width >= 9 THEN @ ELSE None]

Sheet(name, width, cells) ==
    [name |-> name, width |-> width,
     rows |-> [r \in DOMAIN cells |-> ClipRow(cells[r], width)]]

FullWidth == 9
DefaultBlock == <<PlainX, GreyEmpty, StreamRow>>

\* the scalar cells and the 'Total Assets' value vary
ScalarSheets(name) ==
    { Sheet(name, FullWidth, Scalars(None, c27, c32) @@ Label @@ Block(DefaultBlock)) :
        c27 \in ScalarVals, c32 \in ScalarVals }
    \cup
    { Sheet(name, FullWidth,
            Scalars(b4, Num(100), None) @@ Total(v) @@ Label @@ Block(DefaultBlock)) :
        b4 \in ClientVals, v \in ScalarVals }

\* the block under the label varies
BlockSheets(name) ==
    { Sheet(name, FullWidth,
            Scalars(None, Num(100), Num(50)) @@ Total(Num(1000)) @@ Label @@ Block(b)) :
        b \in UNION {[1..n -> BlockKinds] : n \in 0..MaxStocks} }

\* two IC rows at every pair of distances from the row that ends the block
\* (the terminator, or the block-start row of a block without one)
WindowSheets(name) ==
    { Sheet(name, FullWidth,
            Scalars(None, Num(100), Num(50)) @@ Label
                @@ ((StocksRow + 1) :> p.anchor)
                @@ ((StocksRow + 1 + p.d1) :> p.k1)
                @@ ((StocksRow + 1 + p.d2) :> p.k2)) :
        p \in { q \in [anchor : {GreyEmpty, PlainX},
                       d1 : 1..(IC_END_OFFSET + 1), d2 : 1..(IC_END_OFFSET + 1),
                       k1 : ICKinds, k2 : ICKinds] : q.d1 < q.d2 } }

\* sheets of fewer columns, with and without the two labels
WidthSheets(name) ==
    { Sheet(name, p.w,
            Scalars(None, Num(100), Num(50))
                @@ (IF p.total THEN Total(Num(1000)) ELSE <<>>)
                @@ (IF p.label THEN Label @@ Block(DefaultBlock) ELSE <<>>)) :
        p \in [w : Widths, total : BOOLEAN, label : BOOLEAN] }

\* one varying row in the block, for the workbooks of two sheets
LiteSheets(name) ==
    { Sheet(name, FullWidth,
            Scalars(b4, Num(100), Num(50)) @@ Label
                @@ Block(<<k, GreyEmpty, StreamRow, PlainX>>)) :
        b4 \in {None, Str(Acme)}, k \in BlockKinds }

Workbooks ==
    { <<ws>> : ws \in ScalarSheets(S1) \cup BlockSheets(S1)
                      \cup WindowSheets(S1) \cup WidthSheets(S1) }
    \cup
    { <<p[1], p[2]>> : p \in LiteSheets(S1) \X (LiteSheets(S2) \cup ScalarSheets(S2)) }

Init ==
    /\ wb \in Workbooks
    /\ handle = "unopened"
    /\ pc = "start"
    /\ sheet_i = 0
    /\ loc = NoLocals
    /\ out = EmptyDict
    /\ all_prices = EmptyDict
    /\ result = NoResult
    /\ err = NoError
    /\ NormIdle

Spec == Init /\ [][Next]_vars

-----------------------------------------------------------------------------
(* Claims about normalize_stock, checked under SpecNorm.                   *)

\* the result ends with the suffix, and with one copy of it only
SuffixedOnce(cs) ==
    /\ EndsWith(cs, MARKET_SUFFIX)
    /\ ~EndsWith(cs, MARKET_SUFFIX \o MARKET_SUFFIX)

\* C2 as stated: for every raw string that does not end in ".CA", the empty
\* string and blank strings included, normalize_stock(raw) ends with ".CA"
\* exactly once.
C2_Original ==
    (npc # "raw" /\ raw.k = "str" /\ ~EndsWith(raw.s, MARKET_SUFFIX))
        => SuffixedOnce(once.s)

\* C2 amended: for every non-empty raw string whose trimmed, uppercased form
\* does not end in ".CA" (blank strings included), normalize_stock(raw) is
\* that form followed by ".CA": it ends with ".CA" exactly once.
C2_SuffixOnce ==
    (/\ npc # "raw"
     /\ raw.k = "str"
     /\ raw.s # <<>>
     /\ ~EndsWith(Upper(Strip(raw.s)), MARKET_SUFFIX))
        => /\ SuffixedOnce(once.s)
           /\ once.s = Upper(Strip(raw.s)) \o MARKET_SUFFIX

\* a blank raw string has been normalised to the bare suffix
C2_Witness ==
    /\ npc = "once"
    /\ raw = Str(<<" ", " ">>)
    /\ once = Str(MARKET_SUFFIX)

\* C3: normalize_stock is total and idempotent: for every raw input, None
\* included, both calls return a string and the second returns what the
\* first returned.
C3_Idempotent ==
    /\ npc # "raw" => once.k = "str"
    /\ npc = "twice" => (twice.k = "str" /\ twice = once)

\* a mixed-case, padded raw string with a lowercase suffix went through both calls
C3_Witness ==
    /\ npc = "twice"
    /\ raw = Str(<<" ", "a", ".", "C", "a", " ">>)
    /\ once = Str(<<"A", ".", "C", "A">>)
    /\ twice = once

-----------------------------------------------------------------------------
(* What the workbook says, read off the sheets without running the loops.  *)

IsBlankValue(v) ==
    \/ v.k = "none"
    \/ (v.k = "str" /\ \A i \in 1..Len(v.s) : v.s[i] = " ")

\* row of the first holdings row; 0 when the sheet has no 'Stocks' label
BlockStart(ws) ==
    LET label == FindLabel(ws, STOCKS_LABEL)
    IN IF label = 0 THEN 0 ELSE label + 1

\* the first grey and blank row at or below row `start`; 0 when none
FirstTerminatorFrom(ws, start) ==
    LET rows == {r \in DOMAIN ws.rows :
                    /\ r >= start
                    /\ ws.rows[r].fill = GREY
                    /\ IsBlankValue(ws.rows[r].b)}
    IN IF rows = {} THEN 0 ELSE SetMin(rows)

\* the row the IC scan is counted from: the first terminator, or the
\* block-start row of a block without one
BlockEnd(ws) ==
    LET start == BlockStart(ws)
        term == FirstTerminatorFrom(ws, start)
    IN IF term = 0 THEN start ELSE term

\* the rows from the block start up to the first terminator, excluded
BlockRows(ws) ==
    LET start == BlockStart(ws)
        term == FirstTerminatorFrom(ws, start)
    IN IF start = 0 THEN {}
       ELSE start..(IF term = 0 THEN max_row(ws) ELSE term - 1)

TrimmedName(row) == Strip(PyStr(row.b))
HasReservedName(row) == Truthy(row.b) /\ Upper(TrimmedName(row)) \in RESERVED

\* the rows of the block that are holdings: named, not reserved, counted
HoldingRows(ws) ==
    {r \in BlockRows(ws) :
        /\ Truthy(CellRow(ws, r).b)
        /\ ~HasReservedName(CellRow(ws, r))
        /\ IsNumber(CellRow(ws, r).c)}

HoldingOf(row) ==
    [Company_Name |-> normalize_stock(Str(TrimmedName(row))),
     Quantity |-> row.c.n,
     Price |-> PyFloat(OrZero(row.e)).n,
     Market_Value |-> PyFloat(OrZero(row.h)).n,
     Weight |-> OrZero(row.i)]

\* the elements of a set of rows, top-down
Ascending(S) ==
    [i \in 1..Cardinality(S) |-> CHOOSE r \in S : Cardinality({q \in S : q < r}) = i - 1]

ExpectedHoldings(ws) ==
    LET order == Ascending(HoldingRows(ws))
    IN [i \in 1..Len(order) |-> HoldingOf(CellRow(ws, order[i]))]

ClientOf(ws) ==
    LET b4 == CellRow(ws, CLIENT_ROW).b
    IN Title(IF Truthy(b4) THEN b4.s ELSE ws.name)

\* the sheets whose record has been stored
Assembled == 1..(sheet_i - 1)

\* the sheet a stored record was built from: the last one of that client
RecordSheet(client) == wb[SetMax({i \in Assembled : ClientOf(wb[i]) = client})]

Terminal == pc \in {"returned", "raised"}
BlockRead == pc \in {"ics", "aum", "assemble"}

\* the priced, named rows of the blocks, as <<sheet, row>>
PricedRows(sheets) ==
    {p \in UNION {{<<i, r>> : r \in BlockRows(wb[i])} : i \in sheets} :
        /\ Truthy(CellRow(wb[p[1]], p[2]).b)
        /\ IsNumber(CellRow(wb[p[1]], p[2]).e)}

\* processing order: sheets in workbook order, rows top-down
Later(p, q) == p[1] > q[1] \/ (p[1] = q[1] /\ p[2] > q[2])

\* the table is what last-observed-wins gives under the keying `Key`:
\* a ticker for every key observed and no other, the price of its last
\* observation, strictly ascending tickers
LastWinsTable(table, Key(_)) ==
    LET obs == {[at |-> p,
                 key |-> Key(CellRow(wb[p[1]], p[2])),
                 price |-> CellRow(wb[p[1]], p[2]).e.n] : p \in PricedRows(1..Len(wb))}
    IN /\ {table[j].Stock : j \in 1..Len(table)} = {o.key : o \in obs}
       /\ \A j \in 1..Len(table) :
            \E o \in obs :
                /\ o.key = table[j].Stock
                /\ o.price = table[j].Price
                /\ \A q \in obs : q.key = o.key => ~Later(q.at, o.at)
       /\ \A j \in 1..Len(table) : \A k \in 1..Len(table) :
            j < k => LexLess(table[j].Stock, table[k].Stock)

KeyOfName(row) == normalize_stock(row.b)
KeyOfTrimmedName(row) == normalize_stock(Str(TrimmedName(row)))

-----------------------------------------------------------------------------
(* Claims about extract_client_data, checked under Spec.                   *)

\* a holding that some named, non-reserved, counted row of the sheet accounts for
FromRealStock(h, ws) ==
    \E r \in DOMAIN ws.rows :
        /\ Truthy(ws.rows[r].b)
        /\ Upper(TrimmedName(ws.rows[r])) \notin RESERVED
        /\ IsNumber(ws.rows[r].c)
        /\ h.Company_Name = normalize_stock(Str(TrimmedName(ws.rows[r])))
        /\ h.Quantity = ws.rows[r].c.n

\* C1: no holding of a record, nor of the sheet being read, comes from a
\* row whose trimmed, uppercased name is STK-300 or STK-302, whatever the
\* row's quantity: every holding is accounted for by a row of another name,
\* and there are no more holdings than such rows in the block.
C1_ReservedExcluded ==
    /\ pc \in {"holdings", "ics", "aum", "assemble"} =>
          /\ \A j \in 1..Len(loc.stock_rows) : FromRealStock(loc.stock_rows[j], CurrentSheet)
          /\ Len(loc.stock_rows) <= Cardinality(HoldingRows(CurrentSheet))
    /\ \A client \in DOMAIN out :
          /\ \A j \in 1..Len(out[client].data) :
                FromRealStock(out[client].data[j], RecordSheet(client))
          /\ Len(out[client].data) <= Cardinality(HoldingRows(RecordSheet(client)))

\* a reserved row with a numeric quantity stood in the block above a real
\* stock, and the returned record holds the real stock only
C1_Witness ==
    /\ pc = "returned"
    /\ Len(wb) = 1
    /\ CellRow(wb[1], StocksRow + 1) = StreamRow
    /\ CellRow(wb[1], StocksRow + 2) = PlainX
    /\ \E client \in DOMAIN result.out :
          /\ Len(result.out[client].data) = 1
          /\ result.out[client].data[1].Company_Name = <<"X", ".", "C", "A">>

\* C4 as stated: text that is no number in C27 or C32 ends the call in an
\* InvalidScalar error that names the cell, and nothing is returned (stated
\* for the first sheet, whose scalars are the first thing read).
C4_InvalidScalarNamesCell ==
    LET c27 == CellRow(wb[1], CASH_ROW).c
        c32 == CellRow(wb[1], DIVIDENDS_ROW).c
        bad(v) == Truthy(v) /\ ~IsBlankValue(v) /\ ~PyFloat(v).ok
    IN /\ (Terminal /\ bad(c27)) =>
            (pc = "raised" /\ ~result.returned
             /\ err.type = "InvalidScalar" /\ err.cell = "C27")
       /\ (Terminal /\ ~bad(c27) /\ PyFloat(OrZero(c27)).ok /\ bad(c32)) =>
            (pc = "raised" /\ ~result.returned
             /\ err.type = "InvalidScalar" /\ err.cell = "C32")

\* C5 as stated: once the call has ended, by return or by an exception,
\* the workbook handle is closed.
C5_HandleClosed == Terminal => handle = "closed"

C7_BlankNeverFails ==
    pc = "raised" => ~(err.type = "ValueError" /\ IsBlankValue(err.arg))

\* the market value the claim's window gives an identifier: that of its
\* last row among the LOOKAHEAD rows after `last`, 0 without one
WindowValue(ws, last, id) ==
    LET rows == {r \in (last + 1)..(last + LOOKAHEAD) :
                    Truthy(CellRow(ws, r).b) /\ Upper(TrimmedName(CellRow(ws, r))) = id}
    IN IF rows = {} THEN 0 ELSE PyFloat(OrZero(CellRow(ws, SetMax(rows)).h)).n

\* C8 as stated: stream_mv and momentum_mv are set by the rows T+1..T+10
\* only (T the terminator row, or the block-start row without one), the
\* last match winning.
C8_TenRowWindow ==
    (pc \in {"aum", "assemble"} /\ loc.start_row # 0) =>
        LET ws == CurrentSheet
            last == BlockEnd(ws)
        IN /\ loc.stream_mv = WindowValue(ws, last, STREAM_ID)
           /\ loc.momentum_mv = WindowValue(ws, last, MOMENTUM_ID)

\* C9: reading stops at the first grey and blank row: the holdings of the
\* sheet just read, and of every stored record, are the named, non-reserved,
\* counted rows between the block start and the first terminator, top-down,
\* and every ticker of all_prices is that of a priced row above a terminator.
C9_StopsAtTerminator ==
    /\ BlockRead => loc.stock_rows = ExpectedHoldings(CurrentSheet)
    /\ \A client \in DOMAIN out :
          out[client].data = ExpectedHoldings(RecordSheet(client))
    /\ pc \notin {"start", "idle"} =>
          DOMAIN all_prices \subseteq
              {KeyOfTrimmedName(CellRow(wb[p[1]], p[2])) :
                  p \in PricedRows(1..(IF sheet_i > Len(wb) THEN Len(wb) ELSE sheet_i))}

\* the first sheet's block held a grey row with a name above the terminator
\* and a real stock below it: the sheet's record holds the grey row only,
\* and the stock below the terminator has no price entry
C9_Witness ==
    /\ pc = "returned"
    /\ Len(wb) = 2
    /\ CellRow(wb[1], StocksRow + 1).fill = GREY
    /\ CellRow(wb[1], StocksRow + 1).b = Str(NameY)
    /\ CellRow(wb[1], StocksRow + 2) = GreyEmpty
    /\ CellRow(wb[1], StocksRow + 4) = PlainX
    /\ ClientOf(wb[1]) # ClientOf(wb[2])
    /\ Len(result.out[ClientOf(wb[1])].data) = 1
    /\ result.out[ClientOf(wb[1])].data[1].Company_Name = <<"Y", ".", "C", "A">>
    /\ \A j \in 1..Len(result.prices_df) :
          result.prices_df[j].Stock # <<"X", ".", "C", "A">>

\* C10 as stated: no sheet fails for having rows shorter than the columns
\* the extractor reads.
C10_ShortRowsTolerated == pc = "raised" => err.type # "IndexError"

====
